---- MODULE Spec2Model ----
(***************************************************************************)
(* Model of the project persistence and conversation synchronisation      *)
(* engine of laravel-assist-ai: the App component's session state and     *)
(* handlers (src/App.tsx) and the retry policy of the generation service  *)
(* (src/services/geminiService.ts).                                        *)
(*                                                                         *)
(* One step of the session model is one browser task: a user event with   *)
(* the synchronous prefix of its handler (up to the first await that      *)
(* really suspends), or the resumption of a suspended handler.  React     *)
(* state is committed between tasks, so a handler started by an event     *)
(* reads the state of the latest render, while a resumed handler and a    *)
(* timer callback keep the values they captured when they were created.   *)
(***************************************************************************)
EXTENDS Integers, Sequences, FiniteSets, TLC

VARIABLES
    projects,          \* useState<Project[]>            App.tsx:12
    currentProjectId,  \* useState<string | null>        App.tsx:13
    messages,          \* useState<Message[]>            App.tsx:14
    extractedFiles,    \* useState<ExtractedFile[]>      App.tsx:15
    isLoading,         \* useState(false)                App.tsx:18
    apiKey,            \* useState('')                   App.tsx:22
    isSettingsOpen,    \* useState(false)                App.tsx:23
    db,                \* the Project Store (services/db), id -> record
    ex,                \* the request in flight (send, analysis or upload)
    pending,           \* handlers suspended on a store call, in call order
    timers,            \* setTimeout callbacks not yet run
    nextProject,       \* crypto.randomUUID(): next fresh project id
    nextId,            \* crypto.randomUUID(): next fresh message id
    requests,          \* number of requests issued to the generation service
    rt                 \* one run of retryOperation

vars == <<projects, currentProjectId, messages, extractedFiles, isLoading,
          apiKey, isSettingsOpen, db, ex, pending, timers, nextProject,
          nextId, requests, rt>>

snapshot == <<currentProjectId, messages, extractedFiles>>
settings == <<apiKey, isSettingsOpen>>
fresh == <<nextProject, nextId>>

sessionVars == <<projects, currentProjectId, messages, extractedFiles,
                 isLoading, apiKey, isSettingsOpen, db, ex, pending, timers,
                 nextProject, nextId, requests>>

----------------------------------------------------------------------------
(* Bounds of the model *)

MaxProjects == 2     \* projects ever created; their ids are 1..MaxProjects
MaxMessages == 5     \* messages ever created with a fresh id
MaxChunks == 2       \* chunks delivered by one stream
MaxPending == 1      \* handlers suspended on the store at the same time
MaxOverlap == 2      \* the same, when only the project list is used
MaxCalls == 5        \* calls of the operation in one retryOperation run

----------------------------------------------------------------------------
(* Retry policy: src/services/geminiService.ts *)

DefaultRetries == 3
DefaultDelay == 2000

\* A text is a sequence of tokens; s.includes(pat) is contiguous containment.
Includes(s, pat) ==
    \E i \in 0..(Len(s) - Len(pat)) :
        \A j \in 1..Len(pat) : s[i + j] = pat[j]

NoStatus == 0
NoMessage == <<"undefined">>

\* What the operation can throw: an error object with an optional status
\* and an optional message string.
Errors ==
    [status : {NoStatus, 429, 500},
     message : {NoMessage, <<"boom">>, <<"code", "4", "2", "9">>,
                <<"Quota", " ", "exceeded">>,
                <<"RESOURCE_EXHAUSTED">>, <<"4", "2">>}]

IsQuotaErrorNoStatus(error) ==
    /\ error.message # NoMessage
    /\ \/ Includes(error.message, <<"4", "2", "9">>)
       \/ Includes(error.message, <<"Quota", " ", "exceeded">>)
       \/ Includes(error.message, <<"RESOURCE_EXHAUSTED">>)

IsQuotaError(error) ==
    \/ error.status = 429
    \/ /\ error.message # NoMessage
       /\ \/ Includes(error.message, <<"4", "2", "9">>)
          \/ Includes(error.message, <<"Quota", " ", "exceeded">>)
          \/ Includes(error.message, <<"RESOURCE_EXHAUSTED">>)

Values == {"v1", "v2"}

\* The outcome of one call of the operation.
Outcomes ==
    [ok : {TRUE}, value : Values, error : {[status |-> NoStatus, message |-> NoMessage]}]
    \cup [ok : {FALSE}, value : {"none"}, error : Errors]

\* retryOperation entered with a single retry left
RtInitOneRetry ==
    [pc |-> "call", retries |-> 1, delay |-> DefaultDelay,
     log |-> <<>>, waits |-> <<>>, result |-> "none",
     thrown |-> [status |-> NoStatus, message |-> NoMessage]]

RtInit ==
    [pc |-> "call", retries |-> DefaultRetries, delay |-> DefaultDelay,
     log |-> <<>>, waits |-> <<>>, result |-> "none",
     thrown |-> [status |-> NoStatus, message |-> NoMessage]]

\* lines 12-13 and 14-28: one call of operation() and the catch block
RetryCall(o) ==
    /\ rt.pc = "call"
    /\ Len(rt.log) < MaxCalls
    /\ rt' = IF o.ok
             THEN [rt EXCEPT !.log = Append(@, o), !.pc = "returned",
                             !.result = o.value]
             ELSE IF rt.retries > 0 /\ IsQuotaError(o.error)
                  THEN [rt EXCEPT !.log = Append(@, o), !.pc = "wait",
                                  !.waits = Append(@, rt.delay)]
                  ELSE [rt EXCEPT !.log = Append(@, o), !.pc = "thrown",
                                  !.thrown = o.error]
    /\ UNCHANGED sessionVars

\* the recursion passes retries on unchanged
RetryWaitDoneSameRetries ==
    /\ rt.pc = "wait"
    /\ rt' = [rt EXCEPT !.pc = "call", !.delay = @ * 2]
    /\ UNCHANGED sessionVars

\* the recursion passes delay on unchanged
RetryWaitDoneSameDelay ==
    /\ rt.pc = "wait"
    /\ rt' = [rt EXCEPT !.pc = "call", !.retries = @ - 1]
    /\ UNCHANGED sessionVars

\* lines 25-26: the timeout elapses and retryOperation recurses
RetryWaitDone ==
    /\ rt.pc = "wait"
    /\ rt' = [rt EXCEPT !.pc = "call", !.retries = @ - 1, !.delay = @ * 2]
    /\ UNCHANGED sessionVars

----------------------------------------------------------------------------
(* Data: src/types.ts *)

NoProject == 0       \* currentProjectId = null
Welcome == 0         \* the message id 'welcome'
Absent == -1         \* an optional number that is not set

USER == "USER"
AI == "AI"
SYSTEM == "SYSTEM"

Message(id, text, sender, timestamp, isThinking) ==
    [id |-> id, text |-> text, sender |-> sender, timestamp |-> timestamp,
     isThinking |-> isThinking]

Project(id, name, createdAt, count, savedMessages, savedFiles) ==
    [id |-> id, name |-> name, createdAt |-> createdAt,
     filesLoadedCount |-> count, savedMessages |-> savedMessages,
     savedFiles |-> savedFiles]

\* the result of a find() that matches nothing
NoProj == Project(NoProject, <<>>, 0, Absent, <<>>, <<>>)

\* projects.find(p => p.id === id)
Find(projs, id) ==
    IF \E i \in 1..Len(projs) : projs[i].id = id
    THEN projs[CHOOSE i \in 1..Len(projs) :
                   /\ projs[i].id = id
                   /\ \A j \in 1..(i - 1) : projs[j].id # id]
    ELSE NoProj

\* prev.map(p => p.id === id ? updated : p)
MapProjects(projs, id, updated) ==
    [i \in 1..Len(projs) |-> IF projs[i].id = id THEN updated ELSE projs[i]]

\* input.trim(): drop the blank tokens at both ends
RECURSIVE TrimLeft(_)
TrimLeft(s) ==
    IF s # <<>> /\ Head(s) = " " THEN TrimLeft(Tail(s)) ELSE s

RECURSIVE TrimRight(_)
TrimRight(s) ==
    IF s # <<>> /\ s[Len(s)] = " "
    THEN TrimRight(SubSeq(s, 1, Len(s) - 1))
    ELSE s

Trim(s) == TrimRight(TrimLeft(s))

\* what the user can have typed when pressing Enter
Inputs == {<<>>, <<" ">>, <<"q">>}

\* chunk.text of one stream chunk; <<>> is a chunk without text
ChunkTexts == {<<>>, <<"a">>, <<"b">>}

\* error.message of a failed request
ErrorMessages == {"net"}

\* a number inside a template literal
NumText(n) ==
    CASE n = 0 -> "0" [] n = 1 -> "1" [] n = 2 -> "2" [] n = 3 -> "3"
      [] OTHER -> "many"

WelcomeText == <<"new project created">>
ErrorText(m) == <<"error: ", m>>

\* crypto.randomUUID() never repeats: project ids and message ids are
\* taken from two disjoint ranges
FirstMessageId == MaxProjects + 1
LastMessageId == FirstMessageId + MaxMessages - 1

\* Date.now() of a task, in logical time: the clock advances whenever an
\* id is handed out, so the messages of one task share their timestamp and
\* a later task never has an earlier one
Now == nextProject + nextId

----------------------------------------------------------------------------
(* Project Store: services/db is not part of the sources; the contract of  *)
(* section 4.1 of the specification: save is a full-record upsert keyed by *)
(* id, delete removes the record.  A call may fail and then changes        *)
(* nothing.                                                                *)

\* an upsert that merges: the name of a record that exists is kept
saveProjectKeepName(store, project) ==
    [i \in (DOMAIN store) \cup {project.id} |->
        IF i = project.id
        THEN IF i \in DOMAIN store
             THEN [project EXCEPT !.name = store[i].name]
             ELSE project
        ELSE store[i]]

saveProject(store, project) ==
    [i \in (DOMAIN store) \cup {project.id} |->
        IF i = project.id THEN project ELSE store[i]]

deleteProject(store, id) ==
    [i \in (DOMAIN store) \ {id} |-> store[i]]

StoreOutcomes == {TRUE, FALSE}

----------------------------------------------------------------------------
(* Session state: src/App.tsx *)

\* lines 61-68: the refs follow the state after every render
messagesRef == messages
filesRef == extractedFiles

\* kind, stage: which handler issued the request and how far it is;
\* msgId: aiMsgId, tempId or loadingMsgId; fullText: the local of line 430;
\* cur, meta, msgs: currentProjectId, the entry of projects and the messages
\* that the handler captured; file: the archive of an upload;
\* outbound: the message handed to sendMessageStream;
\* delivered, sysBefore: the chunks the transport delivered and the number
\* of SYSTEM messages before the request, recorded for the properties.
\* After the request only the stage is kept.
NoEx ==
    [kind |-> "none", stage |-> "Idle", msgId |-> 0, fullText |-> <<>>,
     delivered |-> <<>>, sysBefore |-> 0, cur |-> NoProject, meta |-> NoProj,
     msgs |-> <<>>, file |-> [name |-> <<>>, files |-> <<>>],
     outbound |-> <<>>]

\* a handler suspended on a store call, with the values it captured
\* projs, ids, name: the projects list, the selection and the name that a
\* merge captured
MergeCont(kind, cur, updated, arg, n, len, projs, ids, name) ==
    [kind |-> kind, cur |-> cur, updated |-> updated, arg |-> arg, n |-> n,
     len |-> len, projs |-> projs, ids |-> ids, name |-> name]

Cont(kind, cur, updated, arg, n, len) ==
    MergeCont(kind, cur, updated, arg, n, len, <<>>, <<>>, <<>>)

Init ==
    /\ projects = <<>>
    /\ currentProjectId = NoProject
    /\ messages = <<>>
    /\ extractedFiles = <<>>
    /\ isLoading = FALSE
    /\ apiKey \in {"", "key"}
    /\ isSettingsOpen = (apiKey = "")
    /\ db = <<>>
    /\ ex = NoEx
    /\ pending = <<>>
    /\ timers = {}
    /\ nextProject = 1
    /\ nextId = FirstMessageId
    /\ requests = 0
    /\ rt = RtInit

\* the record built from the messages of the projects list
updatedProjectStale(cur, meta) ==
    IF cur = NoProject \/ meta = NoProj
    THEN NoProj
    ELSE [meta EXCEPT !.savedFiles = filesRef,
                      !.filesLoadedCount = Len(filesRef)]

\* the record without line 95: the count of the list entry is kept
updatedProjectKeepCount(cur, meta) ==
    IF cur = NoProject \/ meta = NoProj
    THEN NoProj
    ELSE [meta EXCEPT !.savedMessages = messagesRef,
                      !.savedFiles = filesRef]

\* lines 85-96: the record saveCurrentProjectToDb builds, NoProj when it
\* returns early; cur and meta are the currentProjectId and the entry of
\* projects that the calling closure sees
updatedProject(cur, meta) ==
    IF cur = NoProject \/ meta = NoProj
    THEN NoProj
    ELSE [meta EXCEPT !.savedMessages = messagesRef,
                      !.savedFiles = filesRef,
                      !.filesLoadedCount = Len(filesRef)]

----------------------------------------------------------------------------
(* Project list handlers: src/App.tsx, called from the rows and buttons of  *)
(* src/components/ProjectList.tsx, none of which is ever disabled          *)

InList(id) == \E i \in 1..Len(projects) : projects[i].id = id

\* a store call of a handler: the store takes the record, or the call
\* fails, the handler ends with the rejection and never resumes
StoreCall(stored, queue, cont) ==
    \E ok \in StoreOutcomes :
        /\ db' = IF ok THEN stored ELSE db
        /\ pending' = IF ok THEN Append(queue, cont) ELSE queue

\* lines 143-147: handleSelectProject up to the store call of
\* saveCurrentProjectToDb (line 99); without an active project the await
\* does not suspend and the target is loaded in the same task
handleSelectProject(id) ==
    /\ InList(id)
    /\ id # currentProjectId
    /\ LET updated == updatedProject(currentProjectId,
                                     Find(projects, currentProjectId))
           targetProject == Find(projects, id)
       IN IF updated = NoProj
          THEN /\ currentProjectId' = id
               /\ messages' = targetProject.savedMessages
               /\ extractedFiles' = targetProject.savedFiles
               /\ UNCHANGED <<db, pending>>
          ELSE /\ StoreCall(saveProject(db, updated), pending,
                            Cont("select", currentProjectId, updated,
                                 targetProject, id, 0))
               /\ UNCHANGED snapshot
    /\ UNCHANGED <<projects, isLoading, settings, ex, timers, fresh,
                   requests, rt>>

\* lines 102-104 and 149-157: the store call of the flush has completed
ResumeSelect ==
    /\ pending # <<>>
    /\ Head(pending).kind = "select"
    /\ LET c == Head(pending)
       IN /\ projects' = MapProjects(projects, c.cur, c.updated)
          /\ IF c.arg # NoProj
             THEN /\ currentProjectId' = c.n
                  /\ messages' = c.arg.savedMessages
                  /\ extractedFiles' = c.arg.savedFiles
             ELSE UNCHANGED snapshot
    /\ pending' = Tail(pending)
    /\ UNCHANGED <<isLoading, settings, db, ex, timers, fresh,
                   requests, rt>>

\* lines 113-132: createNewProject from the new record to its store call;
\* id is the crypto.randomUUID() of line 114, n the projects.length the
\* handler captured, queue the handlers that stay suspended
CreateRecord(id, n, queue) ==
    LET initialMsg == Message(Welcome, WelcomeText, AI, Now, FALSE)
        newProject == Project(id, <<"Project ", NumText(n + 1)>>, Now, Absent,
                              <<initialMsg>>, <<>>)
    IN StoreCall(saveProject(db, newProject), queue,
                 Cont("create", NoProject, NoProj, newProject, id, 0))

\* lines 109-111: createNewProject up to the store call of the flush, or,
\* without an active project, up to the store call of line 132
createNewProject ==
    /\ nextProject' = nextProject + 1
    /\ LET updated == updatedProject(currentProjectId,
                                     Find(projects, currentProjectId))
       IN IF updated = NoProj
          THEN CreateRecord(nextProject, Len(projects), pending)
          ELSE /\ StoreCall(saveProject(db, updated), pending,
                            Cont("createFlush", currentProjectId, updated,
                                 NoProj, nextProject, Len(projects)))
    /\ UNCHANGED <<projects, snapshot, isLoading, settings, ex, timers,
                   nextId, requests, rt>>

\* lines 102-104 and 113-132: the flush of createNewProject has completed
ResumeCreateFlush ==
    /\ pending # <<>>
    /\ Head(pending).kind = "createFlush"
    /\ LET c == Head(pending)
       IN /\ projects' = MapProjects(projects, c.cur, c.updated)
          /\ CreateRecord(c.n, c.len, Tail(pending))
    /\ UNCHANGED <<snapshot, isLoading, settings, ex, timers, fresh,
                   requests, rt>>

\* lines 134-140: the new project is stored and becomes the active one
ResumeCreate ==
    /\ pending # <<>>
    /\ Head(pending).kind = "create"
    /\ LET newProject == Head(pending).arg
       IN /\ projects' = <<newProject>> \o projects
          /\ currentProjectId' = newProject.id
          /\ messages' = newProject.savedMessages
          /\ extractedFiles' = <<>>
    /\ pending' = Tail(pending)
    /\ UNCHANGED <<isLoading, settings, db, ex, timers, fresh,
                   requests, rt>>

\* lines 160-161: handleDeleteProject up to its store call
handleDeleteProject(id) ==
    /\ InList(id)
    /\ StoreCall(deleteProject(db, id), pending,
                 Cont("delete", currentProjectId, NoProj, NoProj, id, 0))
    /\ UNCHANGED <<projects, snapshot, isLoading, settings, ex, timers,
                   fresh, requests, rt>>

\* lines 163-168: the record is deleted
ResumeDelete ==
    /\ pending # <<>>
    /\ Head(pending).kind = "delete"
    /\ LET c == Head(pending)
       IN /\ projects' = SelectSeq(projects, LAMBDA p : p.id # c.n)
          /\ IF c.cur = c.n
             THEN /\ currentProjectId' = NoProject
                  /\ messages' = <<>>
                  /\ extractedFiles' = <<>>
             ELSE UNCHANGED snapshot
    /\ pending' = Tail(pending)
    /\ UNCHANGED <<isLoading, settings, db, ex, timers, fresh,
                   requests, rt>>

----------------------------------------------------------------------------
(* Rename: handleRenameProject, src/App.tsx lines 171-182 *)

\* editName.trim() of ProjectList.saveEdit, never empty
NewNames == {<<"r">>}

\* lines 171-176: handleRenameProject up to its store call
handleRenameProject(id, newName) ==
    /\ InList(id)
    /\ LET project == Find(projects, id)
           updated == [project EXCEPT !.name = newName]
       IN StoreCall(saveProject(db, updated), pending,
                    Cont("rename", currentProjectId, NoProj, updated, id, 0))
    /\ UNCHANGED <<projects, snapshot, isLoading, settings, ex, timers,
                   fresh, requests, rt>>

\* lines 178-180: the renamed record is stored
ResumeRename ==
    /\ pending # <<>>
    /\ Head(pending).kind = "rename"
    /\ LET c == Head(pending)
       IN projects' = MapProjects(projects, c.n, c.arg)
    /\ pending' = Tail(pending)
    /\ UNCHANGED <<snapshot, isLoading, settings, db, ex, timers, fresh,
                   requests, rt>>

----------------------------------------------------------------------------
(* Merge: handleMergeProjects, src/App.tsx lines 184-247 *)

\* lines 191-204: the snapshot of each selected project, the refs for the
\* active one, the entry of the captured projects list for the others
Sources(projs, cur, ids) ==
    [i \in 1..Len(ids) |->
        IF ids[i] = cur
        THEN [messages |-> messagesRef, files |-> filesRef]
        ELSE [messages |-> Find(projs, ids[i]).savedMessages,
              files |-> Find(projs, ids[i]).savedFiles]]

\* a list in place of the Map: every file is added
MapSetAppend(fileMap, f) == Append(fileMap, f)

\* a map that keeps the first value of a key
MapSetKeepFirst(fileMap, f) ==
    IF \E i \in 1..Len(fileMap) : fileMap[i].path = f.path
    THEN fileMap
    ELSE Append(fileMap, f)

\* fileMap.set(f.path, f): a Map keeps the position of the first insertion
\* of a key and the value of the last one
MapSet(fileMap, f) ==
    IF \E i \in 1..Len(fileMap) : fileMap[i].path = f.path
    THEN [i \in 1..Len(fileMap) |->
             IF fileMap[i].path = f.path THEN f ELSE fileMap[i]]
    ELSE Append(fileMap, f)

RECURSIVE SetAll(_, _)
SetAll(fileMap, files) ==
    IF files = <<>> THEN fileMap
    ELSE SetAll(MapSet(fileMap, Head(files)), Tail(files))

\* a map that is created anew for every source
RECURSIVE MergeFilesLastOnly(_, _)
MergeFilesLastOnly(sources, k) ==
    IF k = 0 THEN <<>> ELSE SetAll(<<>>, sources[k].files)

\* lines 207-211: mergedFiles of the first k sources
RECURSIVE MergeFiles(_, _)
MergeFiles(sources, k) ==
    IF k = 0 THEN <<>>
    ELSE SetAll(MergeFiles(sources, k - 1), sources[k].files)

\* lines 214-217: the messages of the first k sources, one after the other
RECURSIVE ConcatMessages(_, _)
ConcatMessages(sources, k) ==
    IF k = 0 THEN <<>>
    ELSE ConcatMessages(sources, k - 1) \o sources[k].messages

\* m put into a sorted sequence behind every message that is not later
RECURSIVE InsertByTimestamp(_, _)
InsertByTimestamp(sorted, m) ==
    IF sorted = <<>> THEN <<m>>
    ELSE IF sorted[Len(sorted)].timestamp - m.timestamp <= 0
         THEN Append(sorted, m)
         ELSE Append(InsertByTimestamp(SubSeq(sorted, 1, Len(sorted) - 1), m),
                     sorted[Len(sorted)])

\* a sort that puts the later of two equal messages first
RECURSIVE SortByTimestampUnstable(_)
SortByTimestampUnstable(msgs) ==
    IF msgs = <<>> THEN <<>>
    ELSE InsertByTimestamp(SortByTimestampUnstable(Tail(msgs)), Head(msgs))

\* line 218: sort((a, b) => a.timestamp - b.timestamp), which is stable
RECURSIVE SortByTimestamp(_)
SortByTimestamp(msgs) ==
    IF msgs = <<>> THEN <<>>
    ELSE InsertByTimestamp(SortByTimestamp(SubSeq(msgs, 1, Len(msgs) - 1)),
                           msgs[Len(msgs)])

MarkerText(n) == <<"merged ", NumText(n), " projects">>

\* the marker put in front of the sorted messages
MergedMessagesMarkerFirst(sources, markerId, n) ==
    <<Message(markerId, MarkerText(n), SYSTEM, Now, FALSE)>>
      \o SortByTimestamp(ConcatMessages(sources, Len(sources)))

\* lines 213-226: the sorted messages with the marker pushed behind them
MergedMessages(sources, markerId, n) ==
    Append(SortByTimestamp(ConcatMessages(sources, Len(sources))),
           Message(markerId, MarkerText(n), SYSTEM, Now, FALSE))

\* what the user typed as the name of the merged project, trimmed
MergeNames == {<<>>, <<"m">>}

\* lines 191-238: handleMergeProjects from the sources to the store call;
\* c holds what the handler captured: cur, projs, ids, name, the new
\* project id n and the marker id len, which stay recorded with the
\* continuation for the properties
MergeRecord(c, queue) ==
    LET sources == Sources(c.projs, c.cur, c.ids)
        mergedFiles == MergeFiles(sources, Len(sources))
        mergedMessages == MergedMessages(sources, c.len, Len(c.ids))
        newProject ==
            Project(c.n,
                    IF c.name # <<>> THEN c.name
                    ELSE <<"Merged Project ", NumText(Len(c.projs) + 1)>>,
                    Now, Len(mergedFiles), mergedMessages, mergedFiles)
    IN StoreCall(saveProject(db, newProject), queue,
                 MergeCont("merge", c.cur, NoProj, newProject, c.n, c.len,
                           c.projs, c.ids, c.name))

\* the handler with a guard that lets a single project through
handleMergeProjectsOffByOne(selectedProjectIds, newName) ==
    IF Len(selectedProjectIds) < 1
    THEN UNCHANGED vars
    ELSE /\ nextProject' = nextProject + 1
         /\ nextId' = nextId + 1
         /\ LET updated == updatedProject(currentProjectId,
                                          Find(projects, currentProjectId))
                c == MergeCont("mergeFlush", currentProjectId, updated,
                               NoProj, nextProject, nextId, projects,
                               selectedProjectIds, newName)
            IN IF updated = NoProj
               THEN MergeRecord(c, pending)
               ELSE StoreCall(saveProject(db, updated), pending, c)
         /\ UNCHANGED <<projects, snapshot, isLoading, settings, ex, timers,
                        requests, rt>>

\* lines 184-188: handleMergeProjects up to the store call of the flush,
\* or, when nothing is flushed, up to the store call of line 238
handleMergeProjects(selectedProjectIds, newName) ==
    IF Len(selectedProjectIds) < 2
    THEN UNCHANGED vars
    ELSE /\ nextProject' = nextProject + 1
         /\ nextId' = nextId + 1
         /\ LET updated == updatedProject(currentProjectId,
                                          Find(projects, currentProjectId))
                c == MergeCont("mergeFlush", currentProjectId, updated,
                               NoProj, nextProject, nextId, projects,
                               selectedProjectIds, newName)
            IN IF updated = NoProj
               THEN MergeRecord(c, pending)
               ELSE StoreCall(saveProject(db, updated), pending, c)
         /\ UNCHANGED <<projects, snapshot, isLoading, settings, ex, timers,
                        requests, rt>>

\* lines 102-104 and 191-238: the flush of the merge has completed
ResumeMergeFlush ==
    /\ pending # <<>>
    /\ Head(pending).kind = "mergeFlush"
    /\ LET c == Head(pending)
       IN /\ projects' = MapProjects(projects, c.cur, c.updated)
          /\ MergeRecord(c, Tail(pending))
    /\ UNCHANGED <<snapshot, isLoading, settings, ex, timers, fresh,
                   requests, rt>>

\* lines 240-246: the merged project is stored and becomes the active one
ResumeMerge ==
    /\ pending # <<>>
    /\ Head(pending).kind = "merge"
    /\ LET newProject == Head(pending).arg
       IN /\ projects' = <<newProject>> \o projects
          /\ currentProjectId' = newProject.id
          /\ messages' = newProject.savedMessages
          /\ extractedFiles' = newProject.savedFiles
    /\ pending' = Tail(pending)
    /\ UNCHANGED <<isLoading, settings, db, ex, timers, fresh,
                   requests, rt>>

----------------------------------------------------------------------------
(* Chat: handleSendMessage, src/App.tsx lines 388-458 *)

\* line 699: the input area is rendered for an active project only
InputAreaShown == currentProjectId # NoProject

\* line 759: disabled={isLoading || !apiKey} of the textarea
TextareaEnabled == ~(isLoading \/ apiKey = "")

SystemCount(msgs) ==
    Cardinality({i \in 1..Len(msgs) : msgs[i].sender = SYSTEM})

\* the fields of its projects entry that a closure reads before it
\* overwrites the rest
Captured(p) ==
    [p EXCEPT !.savedMessages = <<>>, !.savedFiles = <<>>,
              !.filesLoadedCount = Absent]

\* src/services/zipService.ts lines 64-74: formatContextForPrompt, the
\* template literals as sequences of their pieces
ContextHeader == "context header\n\n"
RECURSIVE formatContextForPrompt(_)
formatContextForPrompt(files) ==
    IF files = <<>> THEN <<ContextHeader>>
    ELSE formatContextForPrompt(SubSeq(files, 1, Len(files) - 1))
           \o <<"--- FILE: ", files[Len(files)].path, " ---\n",
                files[Len(files)].content, "\n--- END FILE ---\n\n">>

\* the dump attached whenever files are loaded
messageToSendAlways(input) ==
    IF Len(extractedFiles) > 0
    THEN formatContextForPrompt(extractedFiles)
           \o <<"\n\nuser question: ">> \o input
    ELSE input

\* lines 412-416: messageToSend, from the input, the files and the
\* messages of the render that runs the handler
messageToSend(input) ==
    IF /\ Len(extractedFiles) > 0
       /\ Len(SelectSeq(messages, LAMBDA m : m.sender = USER)) = 0
    THEN formatContextForPrompt(extractedFiles)
           \o <<"\n\nuser question: ">> \o input
    ELSE input

\* lines 388-428: the handler as it runs when it is called, up to the
\* await of sendMessageStream
handleSendMessageCall(input) ==
    IF Trim(input) = <<>> \/ isLoading
    THEN UNCHANGED vars
    ELSE IF apiKey = ""
    THEN /\ isSettingsOpen' = TRUE
         /\ UNCHANGED <<projects, snapshot, isLoading, apiKey, db, ex,
                        pending, timers, fresh, requests, rt>>
    ELSE /\ LET userMsg == Message(nextId, input, USER, Now, FALSE)
                 aiMsgId == nextId + 1
            IN /\ messages' = messages \o
                      <<userMsg, Message(aiMsgId, <<>>, AI, Now, TRUE)>>
               /\ ex' = [NoEx EXCEPT
                             !.kind = "send", !.stage = "Sending",
                             !.msgId = aiMsgId,
                             !.sysBefore = SystemCount(messages),
                             !.cur = currentProjectId,
                             !.meta = Captured(Find(projects,
                                                    currentProjectId)),
                             !.outbound = messageToSend(input)]
         /\ isLoading' = TRUE
         /\ nextId' = nextId + 2
         /\ requests' = requests + 1
         /\ UNCHANGED <<projects, currentProjectId, extractedFiles,
                        settings, db, pending, timers, nextProject, rt>>

\* lines 751-763: Enter in the textarea, or the send button, with input
\* typed
handleSendMessage(input) ==
    /\ InputAreaShown
    /\ TextareaEnabled
    /\ handleSendMessageCall(input)

\* lines 436-438: the updater of one chunk
ApplyChunk(msgs, aiMsgId, fullText) ==
    [i \in 1..Len(msgs) |->
        IF msgs[i].id = aiMsgId
        THEN [msgs[i] EXCEPT !.text = fullText, !.isThinking = FALSE]
        ELSE msgs[i]]

\* the loop without the accumulator of line 430: each chunk replaces the
\* text
StreamChunkLastOnly(text) ==
    /\ ex.kind = "send"
    /\ ex.stage \in {"Sending", "Streaming"}
    /\ messages' = ApplyChunk(messages, ex.msgId, text)
    /\ ex' = [ex EXCEPT !.stage = "Streaming", !.fullText = text,
                        !.delivered = Append(@, text)]
    /\ UNCHANGED <<projects, currentProjectId, extractedFiles, isLoading,
                   settings, db, pending, timers, fresh, requests, rt>>

\* lines 432-439: the stream delivers one chunk
StreamChunk(text) ==
    /\ ex.kind = "send"
    /\ ex.stage \in {"Sending", "Streaming"}
    /\ LET fullText == ex.fullText \o text
       IN /\ messages' = ApplyChunk(messages, ex.msgId, fullText)
          /\ ex' = [ex EXCEPT !.stage = "Streaming", !.fullText = fullText,
                              !.delivered = Append(@, text)]
    /\ UNCHANGED <<projects, currentProjectId, extractedFiles, isLoading,
                   settings, db, pending, timers, fresh, requests, rt>>

\* a setTimeout(saveCurrentProjectToDb, 500) of the handler that issued e;
\* msgId and text record the AI message that the exchange completed
Timer(e) == [cur |-> e.cur, meta |-> e.meta, kind |-> e.kind,
             msgId |-> e.msgId, text |-> e.fullText]

\* lines 441-443 and 455-457: the stream ends
StreamEnd ==
    /\ ex.kind = "send"
    /\ ex.stage \in {"Sending", "Streaming"}
    /\ timers' = timers \cup {Timer(ex)}
    /\ isLoading' = FALSE
    /\ ex' = [NoEx EXCEPT !.stage = "Settled"]
    /\ UNCHANGED <<projects, snapshot, settings, db, pending, fresh,
                   requests, rt>>

\* line 447: the placeholder that is still empty and thinking is dropped
DropPlaceholder(msgs) ==
    SelectSeq(msgs, LAMBDA m : ~(m.sender = AI /\ m.text = <<>> /\ m.isThinking))

\* lines 445-457: sendMessageStream rejects or the iteration throws
StreamFail(m) ==
    /\ ex.kind = "send"
    /\ ex.stage \in {"Sending", "Streaming"}
    /\ messages' = Append(DropPlaceholder(messages),
                          Message(nextId, ErrorText(m), SYSTEM, Now, FALSE))
    /\ nextId' = nextId + 1
    /\ isLoading' = FALSE
    /\ ex' = [NoEx EXCEPT !.stage = "Failed"]
    /\ UNCHANGED <<projects, currentProjectId, extractedFiles, settings, db,
                   pending, timers, nextProject, requests, rt>>

\* lines 84-99: a debounce timer runs saveCurrentProjectToDb with the
\* currentProjectId and projects of the render that created it
TimerFires(tm) ==
    /\ tm \in timers
    /\ timers' = timers \ {tm}
    /\ LET updated == updatedProject(tm.cur, tm.meta)
       IN IF updated = NoProj
          THEN UNCHANGED <<db, pending>>
          ELSE StoreCall(saveProject(db, updated), pending,
                         Cont("save", tm.cur, updated, NoProj, 0, 0))
    /\ UNCHANGED <<projects, snapshot, isLoading, settings, ex, fresh,
                   requests, rt>>

\* lines 102-106: the store call of a debounced save has completed
ResumeSave ==
    /\ pending # <<>>
    /\ Head(pending).kind = "save"
    /\ projects' = MapProjects(projects, Head(pending).cur,
                               Head(pending).updated)
    /\ pending' = Tail(pending)
    /\ UNCHANGED <<snapshot, isLoading, settings, db, ex, timers, fresh,
                   requests, rt>>

----------------------------------------------------------------------------
(* Settings: src/App.tsx lines 77-81 and the modal of lines 497-545 *)

\* lines 77-81 and 517: a key is typed into the open modal and saved
saveSettings(newKey) ==
    /\ isSettingsOpen
    /\ newKey # ""
    /\ apiKey' = newKey
    /\ isSettingsOpen' = FALSE
    /\ UNCHANGED <<projects, snapshot, isLoading, db, ex, pending, timers,
                   fresh, requests, rt>>

----------------------------------------------------------------------------
(* Static analysis: runAnalysis, src/App.tsx lines 318-386 *)

\* lines 702, 707, 714: the analysis buttons are rendered when files are
\* loaded and carry disabled={isLoading}
AnalysisButtonsAlwaysEnabled == extractedFiles # <<>>

AnalysisButtonsEnabled == extractedFiles # <<>> /\ ~isLoading

\* the two analysis types that have a button
AnalysisTypes == {"UNUSED_CHECK", "CODE_REVIEW"}

\* lines 334-350: the label of the analysis type
Label(type) ==
    CASE type = "UNUSED_CHECK" -> "unused code"
      [] type = "CODE_REVIEW" -> "code review"
      [] type = "SECURITY_CHECK" -> "security check"
      [] OTHER -> "analysis"

\* what generateStaticAnalysis resolves with; <<>> is a response without text
Results == {<<>>, <<"report">>}

\* the handler without the check of lines 319-322
runAnalysisNoKeyCheck(type) ==
    /\ InputAreaShown
    /\ AnalysisButtonsEnabled
    /\ IF Len(extractedFiles) = 0
       THEN UNCHANGED vars
       ELSE /\ isLoading' = TRUE
            /\ messages' = Append(messages,
                                  Message(nextId, <<"running ", Label(type)>>,
                                          SYSTEM, Now, TRUE))
            /\ ex' = [NoEx EXCEPT
                        !.kind = "analysis", !.stage = "Sending",
                        !.msgId = nextId,
                        !.cur = currentProjectId,
                        !.meta = Captured(Find(projects, currentProjectId))]
            /\ nextId' = nextId + 1
            /\ requests' = requests + 1
            /\ UNCHANGED <<projects, currentProjectId, extractedFiles,
                           settings, db, pending, timers, nextProject, rt>>

\* lines 318-362: a click on an analysis button, up to the await of
\* generateStaticAnalysis
runAnalysis(type) ==
    /\ InputAreaShown
    /\ AnalysisButtonsEnabled
    /\ IF apiKey = ""
       THEN /\ isSettingsOpen' = TRUE
            /\ UNCHANGED <<projects, snapshot, isLoading, apiKey, db, ex,
                           pending, timers, fresh, requests, rt>>
       ELSE IF Len(extractedFiles) = 0
       THEN UNCHANGED vars
       ELSE /\ isLoading' = TRUE
            /\ messages' = Append(messages,
                                  Message(nextId, <<"running ", Label(type)>>,
                                          SYSTEM, Now, TRUE))
            /\ ex' = [NoEx EXCEPT
                        !.kind = "analysis", !.stage = "Sending",
                        !.msgId = nextId,
                        !.cur = currentProjectId,
                        !.meta = Captured(Find(projects, currentProjectId))]
            /\ nextId' = nextId + 1
            /\ requests' = requests + 1
            /\ UNCHANGED <<projects, currentProjectId, extractedFiles,
                           settings, db, pending, timers, nextProject, rt>>

\* prev.filter(m => m.id !== id)
WithoutId(msgs, id) == SelectSeq(msgs, LAMBDA m : m.id # id)

\* lines 362-375 and 383-385: generateStaticAnalysis resolves
AnalysisResult(result) ==
    /\ ex.kind = "analysis"
    /\ ex.stage = "Sending"
    /\ IF result # <<>>
       THEN /\ messages' = Append(WithoutId(messages, ex.msgId),
                                  Message(nextId, result, AI, Now, FALSE))
            /\ nextId' = nextId + 1
            /\ timers' = timers \cup {[Timer(ex) EXCEPT !.msgId = nextId,
                                                        !.text = result]}
       ELSE UNCHANGED <<messages, nextId, timers>>
    /\ isLoading' = FALSE
    /\ ex' = [NoEx EXCEPT !.stage = "Settled"]
    /\ UNCHANGED <<projects, currentProjectId, extractedFiles, settings, db,
                   pending, nextProject, requests, rt>>

\* lines 376-385: generateStaticAnalysis rejects
AnalysisFail(m) ==
    /\ ex.kind = "analysis"
    /\ ex.stage = "Sending"
    /\ messages' = Append(WithoutId(messages, ex.msgId),
                          Message(nextId, <<"an error occurred: ", m>>, SYSTEM,
                                  Now, FALSE))
    /\ nextId' = nextId + 1
    /\ isLoading' = FALSE
    /\ ex' = [NoEx EXCEPT !.stage = "Failed"]
    /\ UNCHANGED <<projects, currentProjectId, extractedFiles, settings, db,
                   pending, timers, nextProject, requests, rt>>

----------------------------------------------------------------------------
(* Archive upload: handleFileUpload, src/App.tsx lines 249-316 *)

\* lines 621 and 752: both file inputs are rendered for an active project
\* and carry disabled={isLoading}
UploadEnabled == currentProjectId # NoProject /\ ~isLoading

ExtractedFile(path, content) == [path |-> path, content |-> content]

\* the archives the user can choose: file.name and what
\* extractProjectFiles returns for it
Archives ==
    {[name |-> <<"app", ".zip">>,
      files |-> <<ExtractedFile("a.php", "1")>>]}

\* file.name.replace('.zip', ''): the first occurrence is removed
RECURSIVE RemoveFirst(_, _)
RemoveFirst(s, tok) ==
    IF s = <<>> THEN <<>>
    ELSE IF Head(s) = tok THEN Tail(s)
    ELSE <<Head(s)>> \o RemoveFirst(Tail(s), tok)

\* lines 249-268: an archive is chosen, up to the await of
\* extractProjectFiles
handleFileUpload(file) ==
    /\ UploadEnabled
    /\ IF currentProjectId = NoProject
       THEN UNCHANGED vars
       ELSE /\ isLoading' = TRUE
            /\ messages' = Append(messages,
                                  Message(nextId, <<"reading ">> \o file.name,
                                          SYSTEM, Now, FALSE))
            /\ ex' = [NoEx EXCEPT
                        !.kind = "upload", !.stage = "Sending",
                        !.msgId = nextId,
                        !.cur = currentProjectId,
                        !.meta = Captured(Find(projects, currentProjectId)),
                        !.msgs = messages,
                        !.file = file]
            /\ nextId' = nextId + 1
            /\ UNCHANGED <<projects, currentProjectId, extractedFiles,
                           settings, db, pending, timers, nextProject,
                           requests, rt>>

\* lines 304-315: the catch and finally blocks
UploadCatch(msgs, m) ==
    Append(WithoutId(msgs, ex.msgId),
           Message(nextId + 1, <<"read failed: ", m>>, SYSTEM, Now, FALSE))

\* lines 268-300: extractProjectFiles resolves with the files of the
\* archive; the project is stored, or the store call fails and the catch
\* block runs
UploadExtracted ==
    /\ ex.kind = "upload"
    /\ ex.stage = "Sending"
    /\ extractedFiles' = ex.file.files
    /\ LET files == ex.file.files
           successMsg == Message(nextId,
                                 <<"loaded ", NumText(Len(files))>>
                                     \o ex.file.name,
                                 SYSTEM, Now, FALSE)
           newMsgs == Append(WithoutId(messages, ex.msgId), successMsg)
           projectToSave == ex.meta
           updatedProject1 ==
               [projectToSave EXCEPT
                  !.name = IF @ # <<>> /\ Head(@) = "Project "
                           THEN RemoveFirst(ex.file.name, ".zip") ELSE @,
                  !.filesLoadedCount = Len(files),
                  !.savedFiles = files,
                  !.savedMessages =
                      Append(WithoutId(ex.msgs, ex.msgId), successMsg)]
       IN IF projectToSave = Captured(NoProj)
          THEN /\ messages' = newMsgs
               /\ nextId' = nextId + 1
               /\ isLoading' = FALSE
               /\ ex' = [NoEx EXCEPT !.stage = "Settled"]
               /\ UNCHANGED <<db, pending>>
          ELSE \E ok \in StoreOutcomes :
                 IF ok
                 THEN /\ db' = saveProject(db, updatedProject1)
                      /\ pending' = Append(pending,
                                           Cont("upload", ex.cur,
                                                updatedProject1, NoProj, 0, 0))
                      /\ messages' = newMsgs
                      /\ nextId' = nextId + 1
                      /\ ex' = [ex EXCEPT !.stage = "Saving"]
                      /\ UNCHANGED isLoading
                 ELSE /\ messages' = UploadCatch(newMsgs, "store")
                      /\ nextId' = nextId + 2
                      /\ isLoading' = FALSE
                      /\ ex' = [NoEx EXCEPT !.stage = "Failed"]
                      /\ UNCHANGED <<db, pending>>
    /\ UNCHANGED <<projects, currentProjectId, settings, timers, nextProject,
                   requests, rt>>

\* lines 301 and 311-315: the store call of the upload has completed
ResumeUpload ==
    /\ pending # <<>>
    /\ Head(pending).kind = "upload"
    /\ projects' = MapProjects(projects, Head(pending).cur,
                               Head(pending).updated)
    /\ pending' = Tail(pending)
    /\ isLoading' = FALSE
    /\ ex' = [NoEx EXCEPT !.stage = "Settled"]
    /\ UNCHANGED <<snapshot, settings, db, timers, fresh, requests, rt>>

\* lines 304-315: extractProjectFiles rejects
UploadFail(m) ==
    /\ ex.kind = "upload"
    /\ ex.stage = "Sending"
    /\ messages' = Append(WithoutId(messages, ex.msgId),
                          Message(nextId, <<"read failed: ", m>>, SYSTEM, Now,
                                  FALSE))
    /\ nextId' = nextId + 1
    /\ isLoading' = FALSE
    /\ ex' = [NoEx EXCEPT !.stage = "Failed"]
    /\ UNCHANGED <<projects, currentProjectId, extractedFiles, settings, db,
                   pending, timers, nextProject, requests, rt>>

----------------------------------------------------------------------------
(* The session: every user event and every resumption, within the bounds *)

CanSuspend == Len(pending) < MaxPending
FreshIds(k) == nextId + k - 1 <= LastMessageId

Next ==
    \/ CanSuspend /\ \E id \in 1..MaxProjects : handleSelectProject(id)
    \/ ResumeSelect
    \/ CanSuspend /\ nextProject <= MaxProjects /\ createNewProject
    \/ ResumeCreateFlush
    \/ ResumeCreate
    \/ CanSuspend /\ \E id \in 1..MaxProjects : handleDeleteProject(id)
    \/ ResumeDelete
    \/ FreshIds(3) /\ \E input \in Inputs : handleSendMessage(input)
    \/ Len(ex.delivered) < MaxChunks /\ \E text \in ChunkTexts : StreamChunk(text)
    \/ StreamEnd
    \/ \E m \in ErrorMessages : StreamFail(m)
    \/ CanSuspend /\ \E tm \in timers : TimerFires(tm)
    \/ ResumeSave
    \/ FreshIds(2) /\ \E type \in AnalysisTypes : runAnalysis(type)
    \/ \E result \in Results : AnalysisResult(result)
    \/ \E m \in ErrorMessages : AnalysisFail(m)
    \/ FreshIds(3) /\ \E file \in Archives : handleFileUpload(file)
    \/ CanSuspend /\ UploadExtracted
    \/ ResumeUpload
    \/ \E m \in ErrorMessages : UploadFail(m)
    \/ saveSettings("key")

Spec == Init /\ [][Next]_vars

----------------------------------------------------------------------------
(* The project list alone, with handlers that overlap *)

OverlapNext ==
    \/ Len(pending) < MaxOverlap
          /\ \E id \in 1..MaxProjects : handleSelectProject(id)
    \/ ResumeSelect
    \/ Len(pending) < MaxOverlap /\ nextProject <= MaxProjects
          /\ createNewProject
    \/ ResumeCreateFlush
    \/ ResumeCreate
    \/ Len(pending) < MaxOverlap
          /\ \E id \in 1..MaxProjects : handleDeleteProject(id)
    \/ ResumeDelete

OverlapSpec == Init /\ [][OverlapNext]_vars

----------------------------------------------------------------------------
(* Merges of two stored projects.  The session starts with two projects    *)
(* of an earlier session in the store and in the list, their files and     *)
(* messages drawn from small sets; the active one may hold a message that  *)
(* is not stored yet (the error bubble of a failed request).               *)

MaxMerges == 1       \* merges started in one behaviour

StoredFiles ==
    LET Files == {ExtractedFile("a", "1"), ExtractedFile("a", "2"),
                  ExtractedFile("b", "2")}
    IN {<<>>} \cup {<<f>> : f \in Files}
         \cup {fg \in Files \X Files : fg[1].path # fg[2].path}

\* the k-th message of project p, written at time t
StoredMessage(p, k, t) == Message(100 * p + k, <<"m">>, USER, t, FALSE)

StoredMessages(p) ==
    {<<>>} \cup {<<StoredMessage(p, 1, t)>> : t \in 1..2}
           \cup {<<StoredMessage(p, 1, t), StoredMessage(p, 2, u)>> :
                     t \in 1..2, u \in 1..2}

StoredProjects(p) ==
    {Project(p, <<"Project ", NumText(p)>>, 1, Len(f), m, f) :
         m \in StoredMessages(p), f \in StoredFiles}

MergeInit ==
    /\ projects \in {<<p, q>> : p \in StoredProjects(1),
                                q \in StoredProjects(2)}
    /\ db = projects
    /\ currentProjectId \in 0..2
    /\ messages \in
         IF currentProjectId = NoProject THEN {<<>>}
         ELSE LET saved == Find(projects, currentProjectId).savedMessages
              IN {saved,
                  Append(saved, Message(100 * currentProjectId + 3,
                                        ErrorText("net"), SYSTEM, 2, FALSE))}
    /\ extractedFiles = Find(projects, currentProjectId).savedFiles
    /\ isLoading = FALSE
    /\ apiKey = "key"
    /\ isSettingsOpen = FALSE
    /\ ex = NoEx
    /\ pending = <<>>
    /\ timers = {}
    /\ nextProject = 3
    /\ nextId = FirstMessageId
    /\ requests = 0
    /\ rt = RtInit

\* selectedMergeIds: the listed projects the user ticked, in the order of
\* the clicks
Selections ==
    LET ids == {projects[i].id : i \in 1..Len(projects)}
    IN {sel \in UNION {[1..k -> ids] : k \in 0..Cardinality(ids)} :
           \A i, j \in 1..Len(sel) : i # j => sel[i] # sel[j]}

MergeNext ==
    \/ /\ nextProject <= 2 + MaxMerges
       /\ CanSuspend
       /\ \E sel \in Selections, newName \in MergeNames :
              handleMergeProjects(sel, newName)
    \/ ResumeMergeFlush
    \/ ResumeMerge

MergeSpec == MergeInit /\ [][MergeNext]_vars

----------------------------------------------------------------------------
(* The project library: projects are created, filled by an upload,        *)
(* renamed, switched and merged; every switch, creation and merge saves    *)
(* the active project first                                                *)

ProjectsNext ==
    \/ /\ CanSuspend
       /\ \E id \in 1..MaxProjects + MaxMerges : handleSelectProject(id)
    \/ ResumeSelect
    \/ CanSuspend /\ nextProject <= MaxProjects /\ createNewProject
    \/ ResumeCreateFlush
    \/ ResumeCreate
    \/ /\ CanSuspend
       /\ \E id \in 1..MaxProjects + MaxMerges, newName \in NewNames :
              handleRenameProject(id, newName)
    \/ ResumeRename
    \/ /\ nextProject <= MaxProjects + MaxMerges
       /\ CanSuspend
       /\ \E sel \in Selections, newName \in MergeNames :
              handleMergeProjects(sel, newName)
    \/ ResumeMergeFlush
    \/ ResumeMerge
    \/ FreshIds(3) /\ \E file \in Archives : handleFileUpload(file)
    \/ CanSuspend /\ UploadExtracted
    \/ ResumeUpload
    \/ \E m \in ErrorMessages : UploadFail(m)

ProjectsSpec == Init /\ [][ProjectsNext]_vars

----------------------------------------------------------------------------
(* Questions in one stored project.  The session starts in a project of    *)
(* an earlier session, its files and messages drawn from small sets, and   *)
(* the user asks questions one after the other                             *)

SendInit ==
    /\ projects \in {<<p>> : p \in StoredProjects(1)}
    /\ db = projects
    /\ currentProjectId = 1
    /\ messages = Find(projects, currentProjectId).savedMessages
    /\ extractedFiles = Find(projects, currentProjectId).savedFiles
    /\ isLoading = FALSE
    /\ apiKey = "key"
    /\ isSettingsOpen = FALSE
    /\ ex = NoEx
    /\ pending = <<>>
    /\ timers = {}
    /\ nextProject = 2
    /\ nextId = FirstMessageId
    /\ requests = 0
    /\ rt = RtInit

SendNext ==
    \/ FreshIds(3) /\ \E input \in Inputs : handleSendMessage(input)
    \/ Len(ex.delivered) < MaxChunks /\ \E text \in ChunkTexts : StreamChunk(text)
    \/ StreamEnd
    \/ \E m \in ErrorMessages : StreamFail(m)

SendSpec == SendInit /\ [][SendNext]_vars

----------------------------------------------------------------------------
(* The handlers that need the credential, called in a stored project with  *)
(* or without a key.  A stored key is cleared in the input of the settings *)
(* modal (line 516) and the modal is cancelled (line 532); the controls    *)
(* of lines 758 and 763 are disabled without a key, so handleSendMessage   *)
(* is called here as the code of lines 388-393 would run                   *)

CredentialInit ==
    /\ projects \in {<<p>> : p \in StoredProjects(1)}
    /\ db = projects
    /\ currentProjectId = 1
    /\ messages = Find(projects, currentProjectId).savedMessages
    /\ extractedFiles = Find(projects, currentProjectId).savedFiles
    /\ isLoading = FALSE
    /\ apiKey \in {"", "key"}
    /\ isSettingsOpen = FALSE
    /\ ex = NoEx
    /\ pending = <<>>
    /\ timers = {}
    /\ nextProject = 2
    /\ nextId = FirstMessageId
    /\ requests = 0
    /\ rt = RtInit

CredentialNext ==
    \/ FreshIds(3) /\ \E input \in Inputs : handleSendMessageCall(input)
    \/ Len(ex.delivered) < MaxChunks /\ \E text \in ChunkTexts : StreamChunk(text)
    \/ StreamEnd
    \/ \E m \in ErrorMessages : StreamFail(m)
    \/ FreshIds(2) /\ \E type \in AnalysisTypes : runAnalysis(type)
    \/ \E result \in Results : AnalysisResult(result)
    \/ \E m \in ErrorMessages : AnalysisFail(m)
    \/ saveSettings("key")

CredentialSpec == CredentialInit /\ [][CredentialNext]_vars

----------------------------------------------------------------------------
(* One run of retryOperation with the default arguments *)

RetryNext ==
    \/ \E o \in Outcomes : RetryCall(o)
    \/ RetryWaitDone

RetrySpec == Init /\ [][RetryNext]_vars

----------------------------------------------------------------------------
(* Properties *)

ThinkingCount(msgs) ==
    Cardinality({i \in 1..Len(msgs) : msgs[i].isThinking})

RECURSIVE Concat(_)
Concat(chunks) ==
    IF chunks = <<>> THEN <<>> ELSE Head(chunks) \o Concat(Tail(chunks))

\* the request in flight is a chat exchange that no chunk has reached yet
SendingNoChunk == ex.kind = "send" /\ ex.stage = "Sending"

\* the chat exchange in flight settles in this step
Settles == ex.kind = "send" /\ ex'.stage = "Settled"

\* C1: when handleSendMessage fails before any chunk was applied, the active
\* conversation afterwards holds no AI message that is thinking with empty
\* text, and exactly one SYSTEM message more than before the send, whatever
\* other session actions ran in between.
C1_FailureLeavesOneError ==
    [][(SendingNoChunk /\ ex'.stage = "Failed")
         => /\ \A i \in 1..Len(messages') :
                 ~(messages'[i].sender = AI /\ messages'[i].isThinking
                      /\ messages'[i].text = <<>>)
            /\ SystemCount(messages') = ex.sysBefore + 1]_vars

\* C2: when the stream of an exchange ends without error, the placeholder AI
\* message of that exchange is no longer thinking, for every number of
\* delivered chunks, zero included.
C2_SettledClearsThinking ==
    [][Settles
         => \A i \in 1..Len(messages') :
                messages'[i].id = ex.msgId => ~messages'[i].isThinking]_vars

\* C3: when an exchange settles, the text of its AI message in the active
\* conversation is the concatenation of the delivered chunk texts in
\* delivery order.
C3_TextIsConcatenation ==
    [][Settles
         => \A i \in 1..Len(messages') :
                messages'[i].id = ex.msgId
                    => messages'[i].text = Concat(ex.delivered)]_vars

\* C4: the active conversation never holds more than one message with
\* isThinking = true.
C4_AtMostOneThinking == ThinkingCount(messages) <= 1

\* C5: while the loading flag is set no request is issued, and a step of
\* handleSendMessage or runAnalysis appends no message.
C5_OneExchangeInFlight ==
    [][isLoading
         => /\ requests' = requests
            /\ ((\E input \in Inputs : handleSendMessage(input))
                  \/ (\E type \in AnalysisTypes : runAnalysis(type)))
                 => messages' = messages]_vars

\* an exchange is in flight and the user could type and click, were the
\* controls not disabled
C5_Witness ==
    /\ isLoading
    /\ ex.kind = "send"
    /\ ex.stage = "Streaming"
    /\ requests = 1
    /\ apiKey # ""
    /\ extractedFiles # <<>>

\* the record of project id in the store holds message msgId with text
Stored(store, id, msgId, text) ==
    /\ id \in DOMAIN store
    /\ \E i \in 1..Len(store[id].savedMessages) :
         /\ store[id].savedMessages[i].id = msgId
         /\ store[id].savedMessages[i].text = text

\* C6: the debounced save of a settled exchange writes, under the id of the
\* project in which the exchange ran, a record that holds the completed AI
\* message (the case checked: the answer has text and the project is still
\* in the project list).
C6_SettledExchangeIsStored ==
    [][\A tm \in timers :
         (/\ tm.kind = "send"
          /\ tm.text # <<>>
          /\ Find(projects, tm.cur) # NoProj
          /\ timers' = timers \ {tm}
          /\ pending' # pending)
           => Stored(db', tm.cur, tm.msgId, tm.text)]_vars

\* a handleSelectProject step that loads its target in the same task
SwitchesAtOnce ==
    /\ pending' = pending
    /\ currentProjectId' # currentProjectId
    /\ currentProjectId' # NoProject

\* a handleSelectProject step that suspends on its flush
FlushIssued ==
    /\ Len(pending') = Len(pending) + 1
    /\ pending'[Len(pending')].kind = "select"

\* C7: a project switch writes the active in-memory snapshot under the old
\* project's id before the target becomes active, and the record written
\* holds the in-memory messages and files of the time of the flush.
C7_SwitchFlushesFirst ==
    [][/\ SwitchesAtOnce => currentProjectId = NoProject
       /\ FlushIssued
            => /\ UNCHANGED snapshot
               /\ currentProjectId \in DOMAIN db'
               /\ db'[currentProjectId].id = currentProjectId
               /\ db'[currentProjectId].savedMessages = messages
               /\ db'[currentProjectId].savedFiles = extractedFiles]_vars

SwitchInProgress ==
    \E i \in 1..Len(pending) : pending[i].kind = "select"

\* C8: while one project switch is in progress no other switch and no
\* project creation starts.
C8_SwitchesAreSerialized ==
    [][SwitchInProgress
         => ~(/\ Len(pending') = Len(pending) + 1
              /\ pending'[Len(pending')].kind
                   \in {"select", "createFlush", "create"})]_vars

\* the classification the retry policy is specified with
Retryable(e) ==
    \/ e.status = 429
    \/ /\ e.message # NoMessage
       /\ \/ Includes(e.message, <<"4", "2", "9">>)
          \/ Includes(e.message, <<"Quota", " ", "exceeded">>)
          \/ Includes(e.message, <<"RESOURCE_EXHAUSTED">>)

FirstCallFailed == Len(rt.log) >= 1 /\ ~rt.log[1].ok

\* C9: retryOperation retries after the first failure iff the error is
\* retryable; after any other first failure the operation has been called
\* once, nothing was waited for, and that error is thrown.
C9_TerminalErrorsPropagate ==
    FirstCallFailed
      => IF Retryable(rt.log[1].error)
         THEN /\ Len(rt.waits) >= 1
              /\ Len(rt.log) = 1 => rt.pc \in {"wait", "call"}
         ELSE /\ Len(rt.log) = 1
              /\ rt.waits = <<>>
              /\ rt.pc = "thrown"
              /\ rt.thrown = rt.log[1].error

C9_Witness ==
    /\ FirstCallFailed
    /\ ~Retryable(rt.log[1].error)
    /\ rt.log[1].error.status = 500
    /\ rt.pc = "thrown"

QuotaFailure(o) == ~o.ok /\ Retryable(o.error)

\* C10: when the first two calls fail with a quota error, a third call is
\* made, and when it succeeds retryOperation returns its result after
\* exactly 3 calls.
C10_ThirdCallSucceeds ==
    (Len(rt.log) >= 2 /\ QuotaFailure(rt.log[1]) /\ QuotaFailure(rt.log[2]))
      => /\ rt.pc # "thrown" \/ Len(rt.log) > 2
         /\ (Len(rt.log) >= 3 /\ rt.log[3].ok)
              => /\ rt.pc = "returned"
                 /\ rt.result = rt.log[3].value
                 /\ Len(rt.log) = 3
                 /\ Len(rt.waits) = 2

C10_Witness ==
    /\ Len(rt.log) = 3
    /\ QuotaFailure(rt.log[1])
    /\ QuotaFailure(rt.log[2])
    /\ rt.log[3].ok
    /\ rt.pc = "returned"

AllQuotaFailures == \A i \in 1..Len(rt.log) : QuotaFailure(rt.log[i])

\* C11: when every call fails with a quota error, retryOperation makes at
\* most 3 retries (4 calls), and then throws the error of the last call.
C11_RetriesAreBounded ==
    AllQuotaFailures
      => /\ Len(rt.log) <= DefaultRetries + 1
         /\ Len(rt.waits) <= DefaultRetries
         /\ rt.pc # "returned"
         /\ Len(rt.log) = DefaultRetries + 1
              => /\ rt.pc = "thrown"
                 /\ rt.thrown = rt.log[Len(rt.log)].error
         /\ rt.pc = "thrown" => Len(rt.log) = DefaultRetries + 1

C11_Witness ==
    /\ AllQuotaFailures
    /\ Len(rt.log) = 4
    /\ rt.pc = "thrown"
    /\ rt.thrown = rt.log[4].error
    /\ rt.log[4].error # rt.log[3].error

RECURSIVE Doubled(_, _)
Doubled(d, k) == IF k = 0 THEN d ELSE 2 * Doubled(d, k - 1)

\* C12: every retry is preceded by exactly one backoff wait, and each wait
\* is twice the one before it, starting at 2000 ms.
C12_BackoffDoubles ==
    /\ Len(rt.waits) =
         IF rt.pc \in {"returned", "thrown"} THEN Len(rt.log) - 1
         ELSE Len(rt.log)
    /\ \A k \in 1..Len(rt.waits) : rt.waits[k] = Doubled(2000, k - 1)
    /\ \A k \in 1..(Len(rt.waits) - 1) : rt.waits[k + 1] = 2 * rt.waits[k]

C12_Witness ==
    /\ rt.waits = <<2000, 4000, 8000>>
    /\ Len(rt.log) = 4

\* a merge has built its result in this step: the continuation that waits
\* for the store call of line 238 holds it
MergeBuilt ==
    /\ pending' # <<>>
    /\ pending'[Len(pending')].kind = "merge"
    /\ \/ Len(pending') = Len(pending) + 1
       \/ /\ pending # <<>>
          /\ Head(pending).kind = "mergeFlush"
          /\ Len(pending') = Len(pending)
          /\ pending'[Len(pending')].n = Head(pending).n

Merged == pending'[Len(pending')].arg
MergeSources ==
    LET c == pending'[Len(pending')] IN Sources(c.projs, c.cur, c.ids)

Paths(files) == {files[i].path : i \in 1..Len(files)}
Range(seq) == {seq[i] : i \in 1..Len(seq)}

\* the source that comes last in the selection among those holding path
LastWith(sources, path) ==
    CHOOSE k \in 1..Len(sources) :
        /\ path \in Paths(sources[k].files)
        /\ \A j \in (k + 1)..Len(sources) : path \notin Paths(sources[j].files)

\* C13: the merged file set holds every path of any source exactly once,
\* with the content of the source that comes last in the selection order.
C13_LastWriteWins ==
    [][MergeBuilt
         => LET sources == MergeSources
                files == Merged.savedFiles
            IN /\ Paths(files) =
                    UNION {Paths(sources[k].files) : k \in 1..Len(sources)}
               /\ \A i, j \in 1..Len(files) :
                    files[i].path = files[j].path => i = j
               /\ \A i \in 1..Len(files) :
                    files[i] \in
                      Range(sources[LastWith(sources, files[i].path)].files)
       ]_vars

\* two sources hold the same path with different contents and are merged
C13_Witness ==
    /\ pending # <<>>
    /\ Head(pending).kind = "merge"
    /\ LET c == Head(pending)
           first == Find(c.projs, c.ids[1]).savedFiles
           last == Find(c.projs, c.ids[2]).savedFiles
       IN /\ c.cur = NoProject
          /\ first = <<ExtractedFile("a", "1")>>
          /\ last = <<ExtractedFile("a", "2")>>
          /\ c.arg.savedFiles = <<ExtractedFile("a", "2")>>

DisjointPaths(sources) ==
    \A i, j \in 1..Len(sources) :
        i # j => Paths(sources[i].files) \cap Paths(sources[j].files) = {}

\* C14: two snapshots with disjoint paths merge to the same set of files
\* in either order.
C14_DisjointMergeCommutes ==
    [][(MergeBuilt /\ Len(MergeSources) = 2 /\ DisjointPaths(MergeSources))
         => LET sources == MergeSources
                swapped == <<sources[2], sources[1]>>
            IN /\ Range(Merged.savedFiles) = Range(MergeFiles(swapped, 2))
               /\ Range(Merged.savedFiles) =
                    Range(sources[1].files) \cup Range(sources[2].files)
       ]_vars

C14_Witness ==
    /\ pending # <<>>
    /\ Head(pending).kind = "merge"
    /\ LET c == Head(pending)
       IN /\ c.cur = NoProject
          /\ Find(c.projs, c.ids[1]).savedFiles = <<ExtractedFile("a", "1")>>
          /\ Find(c.projs, c.ids[2]).savedFiles = <<ExtractedFile("b", "2")>>
          /\ Len(c.arg.savedFiles) = 2

\* the position of the message with this id in a sequence of messages
Position(msgs, id) == CHOOSE i \in 1..Len(msgs) : msgs[i].id = id

\* C15: the merged messages without the trailing marker are a permutation
\* of the concatenated source messages, in ascending timestamp order, equal
\* timestamps in the order of the concatenation.
C15_MessagesStableSorted ==
    [][MergeBuilt
         => LET sources == MergeSources
                all == ConcatMessages(sources, Len(sources))
                out == SubSeq(Merged.savedMessages, 1,
                              Len(Merged.savedMessages) - 1)
            IN /\ Len(out) = Len(all)
               /\ Range(out) = Range(all)
               /\ \A i, j \in 1..Len(out) :
                    i < j
                      => \/ out[i].timestamp < out[j].timestamp
                         \/ /\ out[i].timestamp = out[j].timestamp
                            /\ Position(all, out[i].id)
                                 < Position(all, out[j].id)
       ]_vars

\* sources with timestamps 2,1 and 1,2 merged to 1,1,2,2
C15_Witness ==
    /\ pending # <<>>
    /\ Head(pending).kind = "merge"
    /\ LET c == Head(pending)
           out == c.arg.savedMessages
       IN /\ c.cur = NoProject
          /\ Len(out) = 5
          /\ Find(c.projs, c.ids[1]).savedMessages[1].timestamp = 2
          /\ Find(c.projs, c.ids[1]).savedMessages[2].timestamp = 1
          /\ Find(c.projs, c.ids[2]).savedMessages[1].timestamp = 1
          /\ [i \in 1..4 |-> out[i].timestamp] = <<1, 1, 2, 2>>

\* C16: the SYSTEM merge marker is the last message of the merge result and
\* no source message has a later timestamp.
C16_MarkerIsLast ==
    [][MergeBuilt
         => LET sources == MergeSources
                all == ConcatMessages(sources, Len(sources))
                out == Merged.savedMessages
                marker == out[Len(out)]
            IN /\ Len(out) = Len(all) + 1
               /\ marker.sender = SYSTEM
               /\ marker.id = pending'[Len(pending')].len
               /\ marker.text = MarkerText(Len(sources))
               /\ \A i \in 1..Len(all) :
                    /\ all[i].timestamp <= marker.timestamp
                    /\ all[i].id # marker.id
       ]_vars

C16_Witness ==
    /\ pending # <<>>
    /\ Head(pending).kind = "merge"
    /\ LET out == Head(pending).arg.savedMessages
       IN /\ Len(out) = 5
          /\ out[5].sender = SYSTEM
          /\ out[4].sender = USER

\* C17: handleMergeProjects with fewer than 2 selected ids writes nothing
\* to the store and leaves the project list, the active project id and the
\* active snapshot as they are.
C17_ShortMergeIsNoOp ==
    [][\A sel \in Selections, newName \in MergeNames :
         (Len(sel) < 2 /\ handleMergeProjects(sel, newName))
           => UNCHANGED <<db, projects, snapshot>>]_vars

\* a session in which a merge that went on would write: the active project
\* is listed and holds a message that is not stored
C17_Witness ==
    /\ pending = <<>>
    /\ nextProject = 3
    /\ currentProjectId = 1
    /\ Len(projects) = 2
    /\ messages # db[1].savedMessages
    /\ ENABLED handleMergeProjects(<<1>>, <<>>)

\* a merge has issued the store call of its flush in this step
MergeFlushIssued ==
    /\ Len(pending') = Len(pending) + 1
    /\ pending'[Len(pending')].kind = "mergeFlush"

\* the ids a merge step works on
MergeIds ==
    LET c == pending'[Len(pending')] IN {c.ids[i] : i \in 1..Len(c.ids)}

\* the result is stored under an id that no record and no entry has
StoredUnderNewId ==
    MergeBuilt
      => /\ Merged.id \notin DOMAIN db
         /\ ~InList(Merged.id)
         /\ Merged.id \in DOMAIN db'
         /\ db'[Merged.id] = Merged

\* C18 as stated: a merge stores its result under a new id, and the stored
\* record of every source project is the same after each step of the merge.
C18_SourcesUntouched ==
    [][(MergeFlushIssued \/ MergeBuilt)
         => /\ StoredUnderNewId
            /\ \A id \in MergeIds \cap DOMAIN db :
                 id \in DOMAIN db' /\ db'[id] = db[id]]_vars

\* C18 amended: a merge stores its result under a new id; the stored record
\* of every source project other than the active one stays the same, and
\* the record of the active project is overwritten by the flush with its
\* own in-memory messages and files.
C18_OnlyActiveSourceFlushed ==
    [][(MergeFlushIssued \/ MergeBuilt)
         => /\ StoredUnderNewId
            /\ \A id \in (MergeIds \cap DOMAIN db) \ {currentProjectId} :
                 id \in DOMAIN db' /\ db'[id] = db[id]
            /\ MergeFlushIssued
                 => /\ InList(currentProjectId)
                    /\ currentProjectId \in DOMAIN db'
                    /\ db'[currentProjectId] =
                         [Find(projects, currentProjectId) EXCEPT
                            !.savedMessages = messages,
                            !.savedFiles = extractedFiles,
                            !.filesLoadedCount = Len(extractedFiles)]]_vars

\* the active project was a source and held a message that was not
\* stored; the merge has flushed it and stored its result
C18_Witness ==
    /\ pending # <<>>
    /\ Head(pending).kind = "merge"
    /\ LET c == Head(pending)
       IN /\ c.cur = 1
          /\ c.ids = <<1, 2>>
          /\ c.n \in DOMAIN db
          /\ \E i \in 1..Len(db[1].savedMessages) :
               db[1].savedMessages[i].sender = SYSTEM

\* a createNewProject that took the id is still suspended on a store call
Creating(id) ==
    \E k \in 1..Len(pending) :
        /\ pending[k].kind \in {"create", "createFlush"}
        /\ pending[k].n = id

\* the id was given to a project that is in the list no more: only the
\* continuation of handleDeleteProject takes an entry out of the list
Deleted(id) ==
    /\ id < nextProject
    /\ ~InList(id)
    /\ ~Creating(id)

\* C19: once handleDeleteProject(id) has completed, the store holds no
\* record with that id in any later state, also when a debounced save or
\* an exchange that started while the project was active ends afterwards.
C19_DeletedStaysDeleted ==
    \A id \in 1..MaxProjects : Deleted(id) => id \notin DOMAIN db

\* filesLoadedCount as the list shows it: an absent count is 0
Count(p) == IF p.filesLoadedCount = Absent THEN 0 ELSE p.filesLoadedCount

\* C20: in every record of the store and every entry of the project list,
\* filesLoadedCount is the number of entries of savedFiles, an absent count
\* counting as 0.
C20_CountMatchesFiles ==
    /\ \A id \in DOMAIN db : Count(db[id]) = Len(db[id].savedFiles)
    /\ \A i \in 1..Len(projects) :
          Count(projects[i]) = Len(projects[i].savedFiles)

\* a merged project with files is stored and listed, and a renamed
\* project that was filled by an upload is in the list
C20_Witness ==
    /\ pending = <<>>
    /\ \E id \in DOMAIN db :
          /\ id > MaxProjects
          /\ InList(id)
          /\ db[id].filesLoadedCount >= 1
    /\ \E i \in 1..Len(projects) :
          /\ projects[i].name \in NewNames
          /\ projects[i].filesLoadedCount >= 1

\* no two entries of files have the same path
OnePathEach(files) == Cardinality(Paths(files)) = Len(files)

\* C21: the savedFiles of every stored project and the active file set hold
\* at most one entry per path (every archive of Archives yields distinct
\* paths).
C21_OnePathEach ==
    /\ \A id \in DOMAIN db : OnePathEach(db[id].savedFiles)
    /\ OnePathEach(extractedFiles)

\* two projects that hold the same path were merged: the result is stored
\* and is the active project
C21_Witness ==
    /\ pending = <<>>
    /\ currentProjectId > MaxProjects
    /\ currentProjectId \in DOMAIN db
    /\ extractedFiles # <<>>
    /\ \E p, q \in DOMAIN db :
          /\ p < q
          /\ q <= MaxProjects
          /\ Paths(db[p].savedFiles) \cap Paths(db[q].savedFiles) # {}

\* no two messages of msgs have the same id
UniqueIds(msgs) ==
    \A i, j \in 1..Len(msgs) : i # j => msgs[i].id # msgs[j].id

\* C22: in every conversation, the active one and every stored one, the
\* result of a merge included, no two messages have the same id.
C22_UniqueMessageIds ==
    /\ UniqueIds(messages)
    /\ \A id \in DOMAIN db : UniqueIds(db[id].savedMessages)

\* s is the beginning of t
IsPrefix(s, t) == Len(s) <= Len(t) /\ SubSeq(t, 1, Len(s)) = s

\* the exchange of handleSendMessage is between its request and its end
Streaming == ex.kind = "send" /\ ex.stage \in {"Sending", "Streaming"}

\* C23: while an exchange is streaming, the text of its AI message never
\* shrinks: after each applied chunk, the text it had in the conversation
\* is a prefix of the text it has now.
C23_TextNeverShrinks ==
    [][(Streaming /\ \E text \in ChunkTexts : StreamChunk(text))
         => \A i \in 1..Len(messages), j \in 1..Len(messages') :
              (messages[i].id = ex.msgId /\ messages'[j].id = ex.msgId)
                 => IsPrefix(messages[i].text, messages'[j].text)]_vars

\* two chunks, none of them empty, were applied to the AI message
C23_Witness ==
    /\ Streaming
    /\ Len(ex.delivered) = 2
    /\ \A k \in 1..2 : ex.delivered[k] # <<>>
    /\ \E i \in 1..Len(messages) :
          /\ messages[i].id = ex.msgId
          /\ messages[i].text = ex.delivered[1] \o ex.delivered[2]

\* handleSendMessage has issued a request for input in this step
Sent(input) == handleSendMessage(input) /\ requests' = requests + 1

\* out is the dump of files followed by text: the header, then for every
\* file, in order, a block with its path and its content, then the
\* question line and the text
IsDumpThenText(out, files, text) ==
    /\ Len(out) = 1 + 5 * Len(files) + 1 + Len(text)
    /\ out[1] = ContextHeader
    /\ \A k \in 1..Len(files) :
          /\ out[5 * k - 2] = files[k].path
          /\ out[5 * k] = files[k].content
    /\ SubSeq(out, 5 * Len(files) + 3, Len(out)) = text

\* C24: the outbound message of handleSendMessage is the formatted dump of
\* all extracted files followed by the user's text exactly when the
\* active project has at least one extracted file and its conversation
\* holds no earlier USER message; otherwise it is the user's text unchanged.
C24_DumpOnFirstQuestion ==
    [][\A input \in Inputs :
         Sent(input)
           => IF /\ extractedFiles # <<>>
                 /\ \A i \in 1..Len(messages) : messages[i].sender # USER
              THEN IsDumpThenText(ex'.outbound, extractedFiles, input)
              ELSE ex'.outbound = input]_vars

\* the first question of a project with two files has gone out with the
\* dump, and the second one is in flight without it
C24_Witness ==
    /\ ex.kind = "send"
    /\ ex.stage = "Sending"
    /\ Len(extractedFiles) = 2
    /\ db[1].savedMessages = <<>>
    /\ ex.outbound = <<"q">>
    /\ requests = 2

\* a handler that needs the credential runs in this step: a question that
\* is not blank, or an analysis
NeedsCredential ==
    \/ \E input \in Inputs : Trim(input) # <<>> /\ handleSendMessageCall(input)
    \/ \E type \in AnalysisTypes : runAnalysis(type)

\* C25: when the credential is missing, handleSendMessage and runAnalysis
\* issue no request and make no retry, open the settings prompt, and leave
\* the conversation, the loading flag and the Project Store unchanged.
C25_NoKeyNoRequest ==
    [][(apiKey = "" /\ NeedsCredential)
         => /\ requests' = requests
            /\ rt' = rt
            /\ ex' = ex
            /\ isSettingsOpen'
            /\ messages' = messages
            /\ isLoading' = isLoading
            /\ db' = db]_vars

\* without a key, a handler has opened the settings prompt of a project
\* with files, and nothing was requested
C25_Witness ==
    /\ apiKey = ""
    /\ isSettingsOpen
    /\ extractedFiles # <<>>
    /\ requests = 0
    /\ ~isLoading
    /\ messages = db[1].savedMessages

\* a save of the store has succeeded in this step: its caller is
\* suspended at the end of the queue, behind the handlers that were there
SaveDone ==
    /\ pending' # <<>>
    /\ pending'[Len(pending')].kind # "delete"
    /\ \/ Len(pending') = Len(pending) + 1
       \/ /\ pending # <<>>
          /\ Len(pending') = Len(pending)
          /\ Head(pending).kind \in {"createFlush", "mergeFlush"}
          /\ pending'[Len(pending')].kind \in {"create", "merge"}
          /\ pending'[Len(pending')].n = Head(pending).n

\* the record that the caller handed to saveProject
SavedRecord ==
    LET c == pending'[Len(pending')]
    IN IF c.kind \in {"create", "rename", "merge"} THEN c.arg ELSE c.updated

\* C26: a save under an id that is stored already leaves exactly one
\* record with that id, equal in every field to the record of this save;
\* the other records stay as they are.
C26_SaveReplacesRecord ==
    [][(SaveDone /\ SavedRecord.id \in DOMAIN db)
         => /\ DOMAIN db' = DOMAIN db
            /\ db'[SavedRecord.id] = SavedRecord
            /\ \A id \in DOMAIN db \ {SavedRecord.id} : db'[id] = db[id]]_vars

\* a project that was stored with its files has been saved again by a
\* rename: the record has the new name and the files
C26_Witness ==
    /\ pending # <<>>
    /\ Head(pending).kind = "rename"
    /\ LET c == Head(pending)
       IN /\ c.n \in DOMAIN db
          /\ db[c.n].name \in NewNames
          /\ db[c.n].savedFiles # <<>>
          /\ db[c.n] = c.arg

\* a write of the Project Store has failed in this step: the handler that
\* called saveProject is not suspended on it and not resumed any more.
\* (A failed write of a switch or of a rename changes nothing at all.)
StoreWriteFailed ==
    \/ createNewProject /\ Len(pending') = Len(pending)
    \/ ResumeCreateFlush /\ Len(pending') < Len(pending)
    \/ \E sel \in Selections, newName \in MergeNames :
          /\ Len(sel) >= 2
          /\ handleMergeProjects(sel, newName)
          /\ Len(pending') = Len(pending)
    \/ ResumeMergeFlush /\ Len(pending') < Len(pending)
    \/ \E tm \in timers :
          /\ updatedProject(tm.cur, tm.meta) # NoProj
          /\ TimerFires(tm)
          /\ Len(pending') = Len(pending)
    \/ /\ UploadExtracted
       /\ ex.meta # Captured(NoProj)
       /\ ex'.stage = "Failed"

\* C27: when a write of the Project Store fails during a session operation,
\* the failure is surfaced as a SYSTEM message in the conversation and the
\* active project, its files and the rest of its conversation stay as
\* they are.
C27_StoreFailureSurfaced ==
    [][StoreWriteFailed
         => /\ currentProjectId' = currentProjectId
            /\ extractedFiles' = extractedFiles
            /\ Len(messages') = Len(messages) + 1
            /\ SubSeq(messages', 1, Len(messages)) = messages
            /\ messages'[Len(messages')].sender = SYSTEM]_vars

\* C28: every record written to the Project Store under the id of a
\* project carries the messages and files of that project: a debounced
\* save that writes the record of a listed project P writes the active
\* conversation and file set, so P is the active project when it fires,
\* and the name it writes is the name P has in the list.
C28_SaveWritesOwnProject ==
    [][\A tm \in timers :
         (TimerFires(tm) /\ db' # db /\ InList(tm.cur))
           => /\ currentProjectId = tm.cur
              /\ db'[tm.cur].savedMessages = messages
              /\ db'[tm.cur].savedFiles = extractedFiles
              /\ db'[tm.cur].name = Find(projects, tm.cur).name]_vars

\* C29: whenever no request is outstanding (the loading flag is false), no
\* record of the Project Store holds a message with isThinking = true.
C29_NoStoredThinking ==
    ~isLoading
      => \A id \in DOMAIN db :
           \A i \in 1..Len(db[id].savedMessages) :
             ~db[id].savedMessages[i].isThinking

\* runAnalysis finishes in this step: generateStaticAnalysis has resolved
\* with some result or has rejected
AnalysisFinishes ==
    \/ \E result \in Results : AnalysisResult(result)
    \/ \E m \in ErrorMessages : AnalysisFail(m)

\* C30: after runAnalysis has finished, the SYSTEM message with
\* isThinking = true that it appended is no longer in the active
\* conversation, and the loading flag is false.
C30_AnalysisClearsProgress ==
    [][AnalysisFinishes
         => /\ ~isLoading'
            /\ \A i \in 1..Len(messages') :
                 ~(messages'[i].id = ex.msgId /\ messages'[i].isThinking)]_vars

====
